---------------------------- MODULE Spec2Model ----------------------------
(***************************************************************************)
(* Model of the DocumentCloud batch downloader (src/main.go).              *)
(*                                                                         *)
(* The file holds two programs of package main:                            *)
(*   - the batch program (lines 1-183): extractFinalDocumentCloudURL,      *)
(*     downloadPDF with an existence check, fileExists, and the main loop  *)
(*     with the download cap;                                              *)
(*   - the redirect script (lines 185-326): ExtractFinalDocumentCloudURL,  *)
(*     downloadPDF that fetches first and names the file after the URL     *)
(*     the redirects end at, and a main loop over one fixed URL.           *)
(*                                                                         *)
(* A Go string is a sequence of one-character strings, so that parsing,    *)
(* matching and file-name derivation are computed character by character.  *)
(* The strings the model feeds in are over the alphabet                    *)
(*   a-z A-Z 0-9 . / : - _ ? # and space                                   *)
(* (no '%', '@', '[' and no control bytes, so the userinfo, IPv6 and       *)
(* percent-decoding branches of net/url are never entered).                *)
(***************************************************************************)
EXTENDS Integers, Sequences, FiniteSets, TLC

VARIABLES
    urls,           \* main: the lines of the input list
    run,            \* number of the program run over the same directory
    pc,             \* "loop" while main's for loop runs, "done" after it
    idx,            \* number of candidates the loop has consumed
    downloadCount,  \* main: downloadCount
    finalURL,       \* main: finalURL of the latest iteration
    outcome,        \* what the latest iteration did
    resp,           \* result of the latest http.Get: "none", "err" or a status
    files,          \* regular files of the output directory: name -> content
    dirExists,      \* whether the output directory exists
    fetchCalls,     \* history: downloadPDF invocations in this run
    created,        \* history: successful os.Create calls in this run
    clean,          \* history: this run met no failure and no cap so far
    prevFiles,      \* history: files when this run started
    prevClean       \* history: clean, of the previous run

vars == <<urls, run, pc, idx, downloadCount, finalURL, outcome, resp, files,
          dirExists, fetchCalls, created, clean, prevFiles, prevClean>>

---------------------------------------------------------------------------
(* Bounds of the model *)

MaxUrls == 3
MaxRuns == 2

---------------------------------------------------------------------------
(* package strings *)

Min(S) == CHOOSE x \in S : \A y \in S : x <= y
Max(S) == CHOOSE x \in S : \A y \in S : x >= y

LowerLetters ==
    {"a","b","c","d","e","f","g","h","i","j","k","l","m",
     "n","o","p","q","r","s","t","u","v","w","x","y","z"}
UpperLetters ==
    {"A","B","C","D","E","F","G","H","I","J","K","L","M",
     "N","O","P","Q","R","S","T","U","V","W","X","Y","Z"}
Digits == {"0","1","2","3","4","5","6","7","8","9"}
Letters == LowerLetters \cup UpperLetters

UpperSeq == <<"A","B","C","D","E","F","G","H","I","J","K","L","M","N","O","P",
      "Q","R","S","T","U","V","W","X","Y","Z">>
LowerSeq == <<"a","b","c","d","e","f","g","h","i","j","k","l","m","n","o","p",
      "q","r","s","t","u","v","w","x","y","z">>

LowerChar(c) ==
    IF c \in UpperLetters
    THEN LowerSeq[CHOOSE i \in 1..26 : UpperSeq[i] = c]
    ELSE c

\* strings.ToLower
ToLower(s) == [i \in 1..Len(s) |-> LowerChar(s[i])]

\* strings.Index, 1-based; 0 when sub does not occur in s
IndexOf(s, sub) ==
    LET hits == {i \in 1..(Len(s) - Len(sub) + 1) :
                    SubSeq(s, i, i + Len(sub) - 1) = sub}
    IN IF hits = {} THEN 0 ELSE Min(hits)

\* strings.LastIndex, 1-based; 0 when sub does not occur in s
LastIndexOf(s, sub) ==
    LET hits == {i \in 1..(Len(s) - Len(sub) + 1) :
                    SubSeq(s, i, i + Len(sub) - 1) = sub}
    IN IF hits = {} THEN 0 ELSE Max(hits)

\* strings.Contains
Contains(s, sub) == IndexOf(s, sub) # 0

\* strings.HasPrefix
HasPrefix(s, p) == Len(s) >= Len(p) /\ SubSeq(s, 1, Len(p)) = p

\* strings.HasSuffix
HasSuffix(s, p) ==
    Len(s) >= Len(p) /\ SubSeq(s, Len(s) - Len(p) + 1, Len(s)) = p

\* the part of s before the first sep (all of s when sep is absent)
CutBefore(s, sep) ==
    LET i == IndexOf(s, sep) IN IF i = 0 THEN s ELSE SubSeq(s, 1, i - 1)

---------------------------------------------------------------------------
(* package net/url: Parse, for the model's alphabet *)

\* url.getScheme: [ok, scheme, rest]
getScheme(rawURL) ==
    LET stops == {i \in 1..Len(rawURL) :
                    ~ \/ rawURL[i] \in Letters
                      \/ (i > 1 /\ rawURL[i] \in Digits \cup {"+", "-", "."})}
    IN IF stops = {}
       THEN [ok |-> TRUE, scheme |-> <<>>, rest |-> rawURL]
       ELSE LET k == Min(stops)
            IN IF rawURL[k] # ":"
               THEN [ok |-> TRUE, scheme |-> <<>>, rest |-> rawURL]
               ELSE IF k = 1
                    THEN [ok |-> FALSE, scheme |-> <<>>, rest |-> <<>>]
                    ELSE [ok |-> TRUE,
                          scheme |-> SubSeq(rawURL, 1, k - 1),
                          rest |-> SubSeq(rawURL, k + 1, Len(rawURL))]

\* url.validOptionalPort
validOptionalPort(port) ==
    \/ port = <<>>
    \/ /\ port[1] = ":"
       /\ \A i \in 2..Len(port) : port[i] \in Digits

\* url.shouldEscape(c, encodeHost) negated: the bytes a host may hold
HostChars ==
    Letters \cup Digits \cup
    {"-", "_", ".", "~", "!", "$", "&", "'", "(", ")", "*", "+", ",",
     ";", "=", ":", "[", "]", "<", ">"}

\* url.parseHost (no '[' in the alphabet): whether the host is accepted
parseHostOK(host) ==
    /\ LET i == LastIndexOf(host, <<":">>)
       IN i # 0 => validOptionalPort(SubSeq(host, i, Len(host)))
    /\ \A i \in 1..Len(host) : host[i] \in HostChars

\* url.Parse: [ok, Scheme, Host, Path]
ParseURL(rawURL) ==
    LET failed == [ok |-> FALSE, Scheme |-> <<>>, Host |-> <<>>, Path |-> <<>>]
        u == CutBefore(rawURL, <<"#">>)
        gs == getScheme(u)
    IN IF ~gs.ok THEN failed
       ELSE
         LET scheme == ToLower(gs.scheme)
             rest == CutBefore(gs.rest, <<"?">>)
         IN IF ~HasPrefix(rest, <<"/">>) /\ scheme # <<>>
            THEN \* an opaque URL: no host, no path
                 [ok |-> TRUE, Scheme |-> scheme, Host |-> <<>>, Path |-> <<>>]
            ELSE IF /\ ~HasPrefix(rest, <<"/">>)
                    /\ Contains(CutBefore(rest, <<"/">>), <<":">>)
            THEN failed  \* first path segment in URL cannot contain colon
            ELSE IF /\ HasPrefix(rest, <<"/", "/">>)
                    /\ (scheme # <<>> \/ ~HasPrefix(rest, <<"/", "/", "/">>))
            THEN LET after == SubSeq(rest, 3, Len(rest))
                     i == IndexOf(after, <<"/">>)
                     authority == IF i = 0 THEN after
                                           ELSE SubSeq(after, 1, i - 1)
                     path == IF i = 0 THEN <<>>
                                      ELSE SubSeq(after, i, Len(after))
                 IN IF parseHostOK(authority)
                    THEN [ok |-> TRUE, Scheme |-> scheme,
                          Host |-> authority, Path |-> path]
                    ELSE failed
            ELSE [ok |-> TRUE, Scheme |-> scheme, Host |-> <<>>, Path |-> rest]

---------------------------------------------------------------------------
(* package path *)

\* path.Base
Base(p) ==
    IF p = <<>> THEN <<".">>
    ELSE LET keep == {i \in 1..Len(p) : p[i] # "/"}
         IN IF keep = {} THEN <<"/">>
            ELSE LET e == Max(keep)   \* trailing slashes dropped
                     slashes == {i \in 1..e : p[i] = "/"}
                     b == IF slashes = {} THEN 1 ELSE Max(slashes) + 1
                 IN SubSeq(p, b, e)

---------------------------------------------------------------------------
(* The Pattern Resolver *)

StorageHost == <<"s","3",".","d","o","c","u","m","e","n","t","c","l","o","u","d",".","o","r","g">>
PatternLiteral == <<"d","o","c","u","m","e","n","t","c","l","o","u","d",".","o","r",
      "g","/","d","o","c","u","m","e","n","t","s","/">>
FinalPrefix == <<"h","t","t","p","s",":","/","/","s","3",".","d","o","c","u","m",
      "e","n","t","c","l","o","u","d",".","o","r","g","/","d","o","c",
      "u","m","e","n","t","s","/">>
PdfSuffix == <<".","p","d","f">>

\* the class [a-zA-Z0-9_\-] of the pattern (and [\w\-] of the redirect script)
SlugChars == Letters \cup Digits \cup {"_", "-"}

\* length of the longest run of characters of class starting at s[from]
RunLen(s, from, class) ==
    LET ends == {j \in from..(Len(s) + 1) :
                    /\ \A k \in from..(j - 1) : s[k] \in class
                    /\ (j = Len(s) + 1 \/ s[j] \notin class)}
    IN IF from > Len(s) THEN 0 ELSE Min(ends) - from

\* whether documentcloud\.org/documents/(\d+)-([a-zA-Z0-9_\-]+) matches at i
MatchesAt(input, i) ==
    /\ i + Len(PatternLiteral) - 1 <= Len(input)
    /\ SubSeq(input, i, i + Len(PatternLiteral) - 1) = PatternLiteral
    /\ LET d == i + Len(PatternLiteral)
           nd == RunLen(input, d, Digits)
       IN /\ nd >= 1
          /\ d + nd <= Len(input)
          /\ input[d + nd] = "-"
          /\ RunLen(input, d + nd + 1, SlugChars) >= 1

\* re.FindStringSubmatch: <<>> when nothing matches, else <<whole, docID, slug>>
FindStringSubmatch(input) ==
    LET hits == {i \in 1..Len(input) : MatchesAt(input, i)}
    IN IF hits = {} THEN <<>>
       ELSE LET i == Min(hits)
                d == i + Len(PatternLiteral)
                nd == RunLen(input, d, Digits)
                ns == RunLen(input, d + nd + 1, SlugChars)
            IN << SubSeq(input, i, d + nd + ns),
                  SubSeq(input, d, d + nd - 1),
                  SubSeq(input, d + nd + 1, d + nd + ns) >>

\* a faulty SprintfFinal: the format string without the "s3." label
SprintfFinalNoS3(docID, slug) ==
    <<"h","t","t","p","s",":","/","/","d","o","c","u","m","e","n","t",
      "c","l","o","u","d",".","o","r","g","/","d","o","c","u","m","e",
      "n","t","s","/">> \o docID \o <<"/">> \o slug \o PdfSuffix

\* fmt.Sprintf("https://s3.documentcloud.org/documents/%s/%s.pdf", docID, slug)
SprintfFinal(docID, slug) ==
    FinalPrefix \o docID \o <<"/">> \o slug \o PdfSuffix

\* extractFinalDocumentCloudURL; <<>> is the empty string
extractFinalDocumentCloudURL(input) ==
    LET parsedURL == ParseURL(input)
    IN IF ~parsedURL.ok THEN <<>>
       ELSE IF Contains(parsedURL.Host, StorageHost) THEN input
       ELSE LET matches == FindStringSubmatch(input)
            IN IF Len(matches) # 3 THEN <<>>
               ELSE SprintfFinal(matches[2], matches[3])


\* ExtractFinalDocumentCloudURL: the same steps, the slug class written [\w\-]
ExtractFinalDocumentCloudURL(input) ==
    LET parsedURL == ParseURL(input)
    IN IF ~parsedURL.ok THEN <<>>
       ELSE IF Contains(parsedURL.Host, StorageHost) THEN input
       ELSE LET matches == FindStringSubmatch(input)
            IN IF Len(matches) # 3 THEN <<>>
               ELSE SprintfFinal(matches[2], matches[3])

---------------------------------------------------------------------------
(* The strings of the model *)

\* The lines of the input are strings; Chars gives the characters of each,
\* which is what the functions above work on.

\* the candidates of the lists of several lines
Candidates ==
    { "https://www.documentcloud.org/documents/1-a",
      "https://s3.documentcloud.org/documents/2/b",
      "https://s3.documentcloud.org/",
      "not a url at all" }

\* the candidates of the one-line lists: a prefix, a host and a path each
Prefixes == { "", "//", "https://", ":" }
Hosts ==
    { "s3.documentcloud.org", "www.documentcloud.org",
      "s3.documentcloud.org.evil.io", "a b", "embed.documentcloud.org:80" }
Paths ==
    { "", "/", "/documents/7-c_d", "/documents/7/e.pdf",
      "/documents/7/F.PDF", "/documents/7-", "/documents/x-a",
      "/documents/7-g.html?q#f" }
Composed == {p \o h \o t : p \in Prefixes, h \in Hosts, t \in Paths}

\* main's list of test URLs
TestURLs ==
    << "https://www.documentcloud.org/documents/23461534-200301254_redactedclosingreport_redacted" >>

\* resp.Request.URL.String(): where the redirects of a request for rawURL may
\* end: at rawURL itself, at a file of another host, or at a root
OtherEnds ==
    { <<"h","t","t","p","s",":","/","/","c","d","n",".","d","o","c","u",
      "m","e","n","t","c","l","o","u","d",".","o","r","g","/","2","3",
      "4","6","1","5","3","4","/","d","o","c">>,
      <<"h","t","t","p","s",":","/","/","c","d","n",".","d","o","c","u",
      "m","e","n","t","c","l","o","u","d",".","o","r","g","/">> }
RedirectEnds(rawURL) == {rawURL} \cup OtherEnds


\* every line the model's input lists hold
InputStrings == Candidates \cup Composed \cup {TestURLs[i] : i \in 1..Len(TestURLs)}

\* the characters of the string literals above
Literals ==
    "https://www.documentcloud.org/documents/1-a" :>
        <<"h","t","t","p","s",":","/","/","w","w","w",".","d","o","c","u","m","e","n","t","c","l","o","u","d",".","o","r","g","/","d","o","c","u","m","e","n","t","s","/","1","-","a">> @@
    "https://s3.documentcloud.org/documents/2/b" :>
        <<"h","t","t","p","s",":","/","/","s","3",".","d","o","c","u","m","e","n","t","c","l","o","u","d",".","o","r","g","/","d","o","c","u","m","e","n","t","s","/","2","/","b">> @@
    "https://s3.documentcloud.org/" :>
        <<"h","t","t","p","s",":","/","/","s","3",".","d","o","c","u","m","e","n","t","c","l","o","u","d",".","o","r","g","/">> @@
    "not a url at all" :>
        <<"n","o","t"," ","a"," ","u","r","l"," ","a","t"," ","a","l","l">> @@
    "" :>
        <<>> @@
    "//" :>
        <<"/","/">> @@
    "https://" :>
        <<"h","t","t","p","s",":","/","/">> @@
    ":" :>
        <<":">> @@
    "s3.documentcloud.org" :>
        <<"s","3",".","d","o","c","u","m","e","n","t","c","l","o","u","d",".","o","r","g">> @@
    "www.documentcloud.org" :>
        <<"w","w","w",".","d","o","c","u","m","e","n","t","c","l","o","u","d",".","o","r","g">> @@
    "s3.documentcloud.org.evil.io" :>
        <<"s","3",".","d","o","c","u","m","e","n","t","c","l","o","u","d",".","o","r","g",".","e","v","i","l",".","i","o">> @@
    "a b" :>
        <<"a"," ","b">> @@
    "embed.documentcloud.org:80" :>
        <<"e","m","b","e","d",".","d","o","c","u","m","e","n","t","c","l","o","u","d",".","o","r","g",":","8","0">> @@
    "/" :>
        <<"/">> @@
    "/documents/7-c_d" :>
        <<"/","d","o","c","u","m","e","n","t","s","/","7","-","c","_","d">> @@
    "/documents/7/e.pdf" :>
        <<"/","d","o","c","u","m","e","n","t","s","/","7","/","e",".","p","d","f">> @@
    "/documents/7/F.PDF" :>
        <<"/","d","o","c","u","m","e","n","t","s","/","7","/","F",".","P","D","F">> @@
    "/documents/7-" :>
        <<"/","d","o","c","u","m","e","n","t","s","/","7","-">> @@
    "/documents/x-a" :>
        <<"/","d","o","c","u","m","e","n","t","s","/","x","-","a">> @@
    "/documents/7-g.html?q#f" :>
        <<"/","d","o","c","u","m","e","n","t","s","/","7","-","g",".","h","t","m","l","?","q","#","f">> @@
    "https://www.documentcloud.org/documents/23461534-200301254_redactedclosingreport_redacted" :>
        <<"h","t","t","p","s",":","/","/","w","w","w",".","d","o","c","u","m","e","n","t","c","l","o","u","d",".","o","r","g","/","d","o","c","u","m","e","n","t","s","/","2","3","4","6","1","5","3","4","-","2","0","0","3","0","1","2","5","4","_","r","e","d","a","c","t","e","d","c","l","o","s","i","n","g","r","e","p","o","r","t","_","r","e","d","a","c","t","e","d">>

\* the characters of every input line
Chars ==
    [u \in InputStrings |->
        IF u \in DOMAIN Literals THEN Literals[u]
        ELSE LET t == CHOOSE t \in Prefixes \X Hosts \X Paths :
                         t[1] \o t[2] \o t[3] = u
             IN Literals[t[1]] \o Literals[t[2]] \o Literals[t[3]]]

\* extractFinalDocumentCloudURL of every input line, computed once
Resolved == [u \in InputStrings |-> extractFinalDocumentCloudURL(Chars[u])]

\* ExtractFinalDocumentCloudURL of every input line, computed once
ResolvedRedirect == [u \in InputStrings |-> ExtractFinalDocumentCloudURL(Chars[u])]

\* every string the model parses as a final URL
UrlStrings ==
    {Resolved[u] : u \in InputStrings}
        \cup {ResolvedRedirect[u] : u \in InputStrings} \cup OtherEnds

\* url.Parse of every such string, computed once
Parsed == [u \in UrlStrings |-> ParseURL(u)]

---------------------------------------------------------------------------
(* The file system and the network *)

NoFiles == [n \in {} |-> "full"]

\* fs with the file at filePath created or truncated and then holding content
WriteFile(fs, filePath, content) ==
    [n \in DOMAIN fs \cup {filePath} |->
        IF n = filePath THEN content ELSE fs[n]]

\* a faulty fileExists: the stat never finds the file
fileExistsNever(fs, filePath) == FALSE

\* fileExists. fs holds the regular files of the output directory by name, and
\* filePath is filepath.Join(dir, name) taken relative to that directory: the
\* joins of ".", ".." and "/" are directories, which fs never holds.
fileExists(fs, filePath) == filePath \in DOMAIN fs

\* What the world answers during one downloadPDF call:
\*   mkdir, create, copy: whether os.MkdirAll (on a missing directory),
\*   os.Create and io.Copy succeed; get: the transport result of http.Get.
Statuses == {"200", "204", "404"}
Worlds ==
    [mkdir : BOOLEAN, get : {"err"} \cup Statuses, create : BOOLEAN,
     copy : BOOLEAN]

\* http.Get: no request leaves without an http(s) scheme and a host
httpGet(rawURL, world) ==
    LET u == Parsed[rawURL]
    IN IF u.Scheme \notin {<<"h","t","t","p">>, <<"h","t","t","p","s">>} \/ u.Host = <<>>
       THEN "err"
       ELSE world.get

\* a faulty StatusNotOK: every status is taken as a success
StatusNotOKNever(status) == FALSE

\* resp.StatusCode != http.StatusOK
StatusNotOK(status) == status # "200"

\* the ".pdf" normalisation of downloadPDF
EnsurePdfSuffix(fileName) ==
    IF ~HasSuffix(ToLower(fileName), PdfSuffix)
    THEN fileName \o PdfSuffix
    ELSE fileName

---------------------------------------------------------------------------
(* The Fetcher of the batch program *)

\* the outcomes in which downloadPDF logged a failure
Failures ==
    {"invalidurl", "noname", "mkdirfail", "geterr", "badstatus",
     "createfail", "copyfail"}

\* the outcomes in which os.Create succeeded
Creations == {"copyfail", "downloaded"}

---------------------------------------------------------------------------
(* The Batch Driver *)

\* maxDownloads := 1000
maxDownloads == 1000

\* a faulty CapReached: an off-by-one comparison
CapReachedOffByOne(count) == count > maxDownloads

\* downloadCount >= maxDownloads
CapReached(count) == count >= maxDownloads

\* a faulty AfterFailure: the failure ends the program (log.Fatalf for
\* log.Printf)
AfterFailureFatal == "done"

\* after log.Printf a failed item returns to the loop
AfterFailure == "loop"

SeqsUpTo(S, n) == UNION {[1..k -> S] : k \in 0..n}

\* A list that reaches the cap: one line more than maxDownloads, each of
\* them counted. The first line names a file without the .pdf suffix, the
\* lines after it are final URLs without a file name (counted, and settled
\* without a network or file call), the last line is a downloadable document.
LongList ==
    [i \in 1..(maxDownloads + 1) |->
        IF i = 1 THEN "https://s3.documentcloud.org/documents/2/b"
        ELSE IF i = maxDownloads + 1
        THEN "https://www.documentcloud.org/documents/1-a"
        ELSE "https://s3.documentcloud.org/"]

InputLists ==
    SeqsUpTo(Candidates, MaxUrls) \cup {<<c>> : c \in Composed}
        \cup {LongList}

InitWith(lists) ==
    /\ urls \in lists
    /\ run = 1
    /\ pc = "loop"
    /\ idx = 0
    /\ downloadCount = 0
    /\ finalURL = <<>>
    /\ outcome = "start"
    /\ resp = "none"
    /\ files = NoFiles
    /\ dirExists = FALSE
    /\ fetchCalls = 0
    /\ created = 0
    /\ clean = TRUE
    /\ prevFiles = NoFiles
    /\ prevClean = TRUE

Init == InitWith(InputLists)

\* the end of one iteration: the item's outcome o, the response r, the file
\* system fs and d it leaves, whether downloadPDF was called and whether
\* downloadCount++ ran
Step(f, o, r, fs, d, called, counted) ==
    /\ idx' = idx + 1
    /\ finalURL' = f
    /\ outcome' = o
    /\ resp' = r
    /\ files' = fs
    /\ dirExists' = d
    /\ downloadCount' = IF counted THEN downloadCount + 1 ELSE downloadCount
    /\ fetchCalls' = IF called THEN fetchCalls + 1 ELSE fetchCalls
    /\ created' = IF o \in Creations THEN created + 1 ELSE created
    /\ clean' = (clean /\ o \notin Failures)
    /\ pc' = IF o \in Failures THEN AfterFailure ELSE "loop"
    /\ UNCHANGED <<urls, run, prevFiles, prevClean>>

\* downloadPDF (batch program), called by main for the final URL url; the
\* call is counted by downloadCount++ when it returns
downloadPDF(url) ==
    \E parsedURL \in {Parsed[url]} :
    \E fileName \in {Base(parsedURL.Path)} :
    \E filePath \in {EnsurePdfSuffix(fileName)} :
       IF ~parsedURL.ok
       THEN Step(url, "invalidurl", "none", files, dirExists, TRUE, TRUE)
       ELSE IF fileName = <<>> \/ fileName = <<"/">>
       THEN Step(url, "noname", "none", files, dirExists, TRUE, TRUE)
       ELSE
    \E world \in Worlds :
    \E got \in {httpGet(url, world)} :
       IF ~dirExists /\ ~world.mkdir
       THEN Step(url, "mkdirfail", "none", files, dirExists, TRUE, TRUE)
       ELSE IF fileExists(files, filePath)
       THEN Step(url, "fetchskip", "none", files, TRUE, TRUE, TRUE)
       ELSE IF got = "err"
       THEN Step(url, "geterr", "err", files, TRUE, TRUE, TRUE)
       ELSE IF StatusNotOK(got)
       THEN Step(url, "badstatus", got, files, TRUE, TRUE, TRUE)
       ELSE IF ~world.create
       THEN Step(url, "createfail", got, files, TRUE, TRUE, TRUE)
       ELSE IF ~world.copy
       THEN Step(url, "copyfail", got,
                 WriteFile(files, filePath, "partial"), TRUE, TRUE, TRUE)
       ELSE Step(url, "downloaded", got,
                 WriteFile(files, filePath, "full"), TRUE, TRUE, TRUE)

\* one iteration of main's loop, past the cap check
Iterate ==
    /\ pc = "loop"
    /\ idx < Len(urls)
    /\ ~CapReached(downloadCount)
    /\ \E f \in {Resolved[urls[idx + 1]]} :
       \E parsedURL \in {Parsed[f]} :
       \E fileName \in {Base(parsedURL.Path)} :
          IF f = <<>>
          THEN Step(f, "unresolved", "none", files, dirExists, FALSE, FALSE)
          ELSE IF ~parsedURL.ok
          THEN Step(f, "skipinvalid", "none", files, dirExists, FALSE, FALSE)
          ELSE IF fileName = <<>>
          THEN Step(f, "skipnoname", "none", files, dirExists, FALSE, FALSE)
          ELSE IF ~fileExists(files, fileName)
          THEN downloadPDF(f)
          ELSE Step(f, "present", "none", files, dirExists, FALSE, FALSE)

\* the cap check at the top of the loop body: break
CapBreak ==
    /\ pc = "loop"
    /\ idx < Len(urls)
    /\ CapReached(downloadCount)
    /\ pc' = "done"
    /\ clean' = FALSE
    /\ UNCHANGED <<urls, run, idx, downloadCount, finalURL, outcome, resp,
                   files, dirExists, fetchCalls, created, prevFiles, prevClean>>

\* the range is exhausted: main returns
Finish ==
    /\ pc = "loop"
    /\ idx = Len(urls)
    /\ pc' = "done"
    /\ UNCHANGED <<urls, run, idx, downloadCount, finalURL, outcome, resp,
                   files, dirExists, fetchCalls, created, clean, prevFiles,
                   prevClean>>

\* the program is started again over the same input list and directory
StartRun ==
    /\ pc = "done"
    /\ run < MaxRuns
    /\ run' = run + 1
    /\ pc' = "loop"
    /\ idx' = 0
    /\ downloadCount' = 0
    /\ finalURL' = <<>>
    /\ outcome' = "start"
    /\ resp' = "none"
    /\ fetchCalls' = 0
    /\ created' = 0
    /\ clean' = TRUE
    /\ prevFiles' = files
    /\ prevClean' = clean
    /\ UNCHANGED <<urls, files, dirExists>>

Next == Iterate \/ CapBreak \/ Finish \/ StartRun

Spec == Init /\ [][Next]_vars

\* the loop is sequential code whose calls return: while main runs, its next
\* step (an iteration, the break or the return) is taken. Starting the
\* program again is left to its user.
LoopStep == Iterate \/ CapBreak \/ Finish
FairSpec == Spec /\ WF_vars(LoopStep)

---------------------------------------------------------------------------
(* The redirect script *)

\* downloadPDF (redirect script): it fetches first, names the file after the
\* URL the redirects ended at, and creates the file without an existence check
downloadPDFRedirect(rawURL) ==
    \E parsedURL \in {Parsed[rawURL]} :
    \E world \in Worlds :
    \E got \in {httpGet(rawURL, world)} :
    \E finalLocation \in RedirectEnds(rawURL) :
    \E finalParsed \in {Parsed[finalLocation]} :
    \E fileName \in {Base(finalParsed.Path)} :
    \E filePath \in {EnsurePdfSuffix(fileName)} :
       IF ~parsedURL.ok
       THEN Step(rawURL, "invalidurl", "none", files, dirExists, TRUE, FALSE)
       ELSE IF got = "err"
       THEN Step(rawURL, "geterr", "err", files, dirExists, TRUE, FALSE)
       ELSE IF StatusNotOK(got)
       THEN Step(rawURL, "badstatus", got, files, dirExists, TRUE, FALSE)
       ELSE IF ~finalParsed.ok
       THEN Step(rawURL, "invalidurl", got, files, dirExists, TRUE, FALSE)
       ELSE IF fileName = <<>> \/ fileName = <<"/">>
       THEN Step(rawURL, "noname", got, files, dirExists, TRUE, FALSE)
       ELSE IF ~dirExists /\ ~world.mkdir
       THEN Step(rawURL, "mkdirfail", got, files, dirExists, TRUE, FALSE)
       ELSE IF ~world.create
       THEN Step(rawURL, "createfail", got, files, TRUE, TRUE, FALSE)
       ELSE IF ~world.copy
       THEN Step(rawURL, "copyfail", got,
                 WriteFile(files, filePath, "partial"), TRUE, TRUE, FALSE)
       ELSE Step(rawURL, "downloaded", got,
                 WriteFile(files, filePath, "full"), TRUE, TRUE, FALSE)

InitRedirect == InitWith({TestURLs})

\* one iteration of the redirect script's loop
IterateRedirect ==
    /\ pc = "loop"
    /\ idx < Len(urls)
    /\ downloadPDFRedirect(ResolvedRedirect[urls[idx + 1]])

NextRedirect == IterateRedirect \/ Finish \/ StartRun

SpecRedirect == InitRedirect /\ [][NextRedirect]_vars

---------------------------------------------------------------------------
(* Vocabulary of the properties *)

\* the name under which downloadPDF stores the file of url
TargetName(url) == EnsurePdfSuffix(Base(ParseURL(url).Path))

\* the name main's own existence check looks for
DriverName(url) == Base(ParseURL(url).Path)

\* url.Hostname for hosts without brackets: the host without its port
Hostname(host) == CutBefore(host, <<":">>)

\* a path without a last segment: empty, or slashes only
EmptyNamed(url) ==
    LET p == ParseURL(url).Path IN \A i \in 1..Len(p) : p[i] = "/"

\* this step is an iteration of the loop
\* the characters of line i of the list
Line(i) == Chars[urls[i]]

IterationStep == idx' = idx + 1

\* this step is an iteration in which downloadPDF was called
FetcherStep == IterationStep /\ fetchCalls' = fetchCalls + 1

---------------------------------------------------------------------------
(* Properties *)

\* C1: in a run no more than maxDownloads files are created and downloadCount
\* never passes maxDownloads; once downloadCount has reached maxDownloads
\* nothing more happens in the run: no candidate is consumed, resolved,
\* checked or fetched.
C1_CapRespected ==
    /\ [](created <= maxDownloads /\ downloadCount <= maxDownloads)
    /\ [][(downloadCount >= maxDownloads /\ run' = run) =>
            UNCHANGED <<idx, finalURL, outcome, resp, files, dirExists,
                        downloadCount, fetchCalls, created>>]_vars

\* C1, its case: the loop stopped at the cap with a candidate left, in a run
\* that created a file
C1_Witness ==
    /\ pc = "done"
    /\ idx < Len(urls)
    /\ downloadCount = maxDownloads
    /\ created >= 1

\* C2 as stated: after the second run the directory holds exactly the files
\* it held after the first
C2_SameFilesAfterSecondRun ==
    (run = 2 /\ pc = "done") => files = prevFiles

\* C2 as amended: a later run keeps every file the run before it left, with
\* its content, and adds none when the run before it consumed the whole list
\* without a failure
C2_ResumeKeepsFiles ==
    run >= 2 =>
        /\ \A n \in DOMAIN prevFiles :
              n \in DOMAIN files /\ files[n] = prevFiles[n]
        /\ prevClean => files = prevFiles

\* C2, its case: a second run over a list the first run completed without a
\* failure; it called downloadPDF again and ended with the same files
C2_Witness ==
    /\ run = 2
    /\ pc = "done"
    /\ prevClean
    /\ DOMAIN files # {}
    /\ fetchCalls > 0
    /\ files = prevFiles

\* C3: when downloadPDF is called with a URL whose target file exists, it
\* issues no GET, reports no failure and leaves every file as it was
C3_ExistingFileIsNoOp ==
    [][(FetcherStep /\ fileExists(files, TargetName(finalURL'))) =>
          /\ resp' = "none"
          /\ outcome' \notin Failures
          /\ files' = files]_vars

\* C4: main's existence check and downloadPDF's give the same answer for the
\* resolved URL, and downloadPDF, once called, never skips an existing file
C4_ChecksAgree ==
    (idx > 0 /\ finalURL # <<>>) =>
        /\ fileExists(files, DriverName(finalURL))
             = fileExists(files, TargetName(finalURL))
        /\ outcome # "fetchskip"

\* C5: candidates are consumed one at a time in list order; the loop ends
\* only at the end of the list or at the cap, whatever failed before; and
\* every run ends
C5_LoopRunsToTheEnd ==
    /\ [][\/ idx' = idx
          \/ idx' = idx + 1 /\ finalURL' = Resolved[urls[idx']]
          \/ idx' = 0 /\ run' = run + 1]_vars
    /\ [](pc = "done" => (idx = Len(urls) \/ downloadCount >= maxDownloads))
    /\ \A r \in 1..MaxRuns :
          (run = r /\ pc = "loop") ~> (run = r /\ pc = "done")

\* C5, its case: a run that met a failure went on, processed the last
\* candidate successfully and ended at the end of the list
C5_Witness ==
    /\ pc = "done"
    /\ idx = Len(urls)
    /\ idx >= 2
    /\ ~clean
    /\ outcome = "downloaded"

\* C6: a candidate whose host contains the storage host is returned as it
\* is, and resolving a resolved URL again returns it unchanged
C6_ResolverIdempotent ==
    idx > 0 =>
        /\ (ParseURL(Line(idx)).ok
              /\ Contains(ParseURL(Line(idx)).Host, StorageHost))
             => finalURL = Line(idx)
        /\ finalURL # <<>> =>
             extractFinalDocumentCloudURL(finalURL) = finalURL

\* C6, its case: a candidate was rewritten to a storage URL
C6_Witness ==
    /\ idx > 0
    /\ finalURL # <<>>
    /\ finalURL # Line(idx)

\* C7: a non-empty result parses and its host is the storage host; the result
\* is empty exactly when the input does not parse, or is not canonical and
\* does not match the pattern
C7_ResolvedPointsAtStorageHost ==
    idx > 0 =>
        /\ finalURL # <<>> =>
             /\ ParseURL(finalURL).ok
             /\ Hostname(ParseURL(finalURL).Host) = StorageHost
        /\ finalURL = <<>> <=>
             \/ ~ParseURL(Line(idx)).ok
             \/ /\ ~Contains(ParseURL(Line(idx)).Host, StorageHost)
                /\ FindStringSubmatch(Line(idx)) = <<>>

\* C8: downloadCount is the number of downloadPDF calls, and it stays as it
\* is for a candidate that is unresolved, whose final URL has no file name,
\* or whose file is present
C8_CountsFetcherCalls ==
    /\ [](downloadCount = fetchCalls)
    /\ [][IterationStep =>
            LET f == extractFinalDocumentCloudURL(Line(idx'))
            IN (\/ f = <<>>
                \/ ~ParseURL(f).ok
                \/ EmptyNamed(f)
                \/ fileExists(files, DriverName(f)))
               => downloadCount' = downloadCount]_vars

\* C9: a file is created or written only in a step whose GET returned 200;
\* after a transport error or another status the files are as before and
\* none is at the target path
C9_NoFileWithoutOKResponse ==
    /\ [](outcome \in {"geterr", "badstatus"} =>
            ~fileExists(files, TargetName(finalURL)))
    /\ [][\A n \in DOMAIN files' :
            (n \notin DOMAIN files \/ files'[n] # files[n]) => resp' = "200"]_vars
    /\ [][(IterationStep /\ outcome' \in {"geterr", "badstatus"}) =>
            files' = files]_vars

\* C9, its case: downloadPDF created the directory, the GET returned 404 and
\* the directory holds no file
C9_Witness ==
    /\ outcome = "badstatus"
    /\ resp = "404"
    /\ dirExists
    /\ DOMAIN files = {}

\* C10: a candidate whose file an earlier run left truncated is passed over
\* in the next run: no GET, no downloadCount++, the file stays as it is
C10_TruncatedFileIsPassedOver ==
    [][(/\ run > 1
        /\ IterationStep
        /\ LET f == extractFinalDocumentCloudURL(Line(idx'))
           IN /\ f # <<>>
              /\ TargetName(f) \in DOMAIN prevFiles
              /\ prevFiles[TargetName(f)] = "partial")
       => /\ resp' = "none"
          /\ downloadCount' = downloadCount
          /\ files' = files]_vars

=============================================================================
